---- MODULE Spec2Model ----
(***************************************************************************)
(* HGTConv (gammagl/layers/conv/hgt_conv.py): the heterogeneous graph      *)
(* transformer layer.  The model covers construction of the per-type and   *)
(* per-relation parameter maps, the three loops of forward, and propagate  *)
(* with its message / aggregate / update stages.                           *)
(*                                                                         *)
(* Numbers.  Input features, Linear weights and relation transforms are    *)
(* small integers.  A pre-softmax score is kept exactly, as the pair       *)
(* (num, rad) standing for num / sqrt(rad).  Attention weights, the        *)
(* sigmoid gate and everything downstream of them are fixed-point numbers  *)
(* in units of 1/FxOne.                                                    *)
(***************************************************************************)
EXTENDS Integers, Sequences, FiniteSets, TLC

VARIABLES
    \* the HGTConv object
    in_channels,     \* dict: node type -> input width          (line 47)
    out_channels,    \* int                                     (line 48)
    heads,           \* int                                     (line 49)
    group,           \* str                                     (line 50)
    k_lin, q_lin, v_lin, a_lin,  \* ModuleDict: node type -> Linear (52-55)
    skip,            \* ParameterDict: node type -> scalar      (line 56)
    a_rel, m_rel,    \* ParameterDict: key -> (heads, dim, dim) (66-67)
    p_rel,           \* ParameterDict: key -> (heads,)          (line 68)
    ctor,            \* the constructor's arguments, kept for reference
    \* one call of forward (or of propagate)
    pc,              \* "idle", "project", "edges", "update", "done", "error"
    x_dict,          \* argument: dict node type -> feature tensor
    edge_index_dict, \* argument: dict edge type -> (source_index, target_index)
    k_dict, q_dict, v_dict,  \* locals of forward (line 83)
    out_dict,        \* local of forward: node type -> list of tensors, then tensor
    pos,             \* position of the running loop in its dict's key order
    error,           \* the exception that ended the call, or "none"
    \* observation of the stages (not program state)
    appended,        \* node type -> the (edge type, result) pairs appended to its list
    fed,             \* node type -> the tensor handed to a_lin at line 119
    call             \* the most recent propagate call: arguments, stages, result

objvars == <<in_channels, out_channels, heads, group, k_lin, q_lin, v_lin,
             a_lin, skip, a_rel, m_rel, p_rel, ctor>>
callvars == <<pc, x_dict, edge_index_dict, k_dict, q_dict, v_dict, out_dict,
              pos, error, appended, fed, call>>
vars == <<objvars, callvars>>

-----------------------------------------------------------------------------
(* Bounds of the model *)

\* the most nodes of a whole x_dict, all node types together
MaxNodes == 3
\* the most edges of a whole edge_index_dict, all edge types together
MaxEdges == 2

-----------------------------------------------------------------------------
(* Python dicts: insertion-ordered keys and a value per key *)

EmptyDict == [keys |-> <<>>, val |-> <<>>]

Range(s) == {s[i] : i \in DOMAIN s}

Has(d, k) == k \in Range(d.keys)

Put(d, k, v) ==
    [keys |-> IF Has(d, k) THEN d.keys ELSE Append(d.keys, k),
     val  |-> [x \in Range(d.keys) \cup {k} |-> IF x = k THEN v ELSE d.val[x]]]

\* the dict of the distinct keys ks, in this order, with the values vs
DictOf(ks, vs) ==
    [keys |-> ks,
     val |-> [x \in Range(ks) |-> vs[CHOOSE i \in DOMAIN ks : ks[i] = x]]]

-----------------------------------------------------------------------------
(* Arithmetic *)

RECURSIVE SumSeq(_)
SumSeq(s) == IF s = <<>> THEN 0 ELSE Head(s) + SumSeq(Tail(s))

Max2(a, b) == IF a >= b THEN a ELSE b
Min2(a, b) == IF a <= b THEN a ELSE b

\* the fixed-point unit: 1.0
FxOne == 10 * 100

\* exp(d / sqrt(rad)) for d <= 0, in units of 1/FxOne, rounded to nearest
ExpTab1 == <<1000, 368, 135, 50, 18, 7, 2, 1>>
ExpTab2 == <<1000, 493, 243, 120, 59, 29, 14, 7, 3, 2, 1>>
ExpFx(d, rad) ==
    LET tab == IF rad = 1 THEN ExpTab1 ELSE ExpTab2
    IN  IF -d + 1 \in DOMAIN tab THEN tab[-d + 1] ELSE 0

\* tlx.ops.sigmoid of an integer, in units of 1/FxOne
SigmoidFx(s) ==
    CASE s = -2 -> 119 [] s = -1 -> 269 [] s = 0 -> 500
      [] s = 1  -> 731 [] s = 2  -> 881

\* relu6 at scale unit
Relu6(v, unit) == Min2(Max2(v, 0), 6 * unit)

\* tensorlayerx Linear(in_features, out_features, act='relu6') applied to a
\* (N, in_features) tensor whose entries are in units of 1/unit
LinearApply(lin, x, unit) ==
    [n \in DOMAIN x |->
        [c \in 1..lin.out_features |->
            Relu6(SumSeq([r \in 1..lin.in_features |-> x[n][r] * lin.W[r][c]])
                  + lin.b[c] * unit, unit)]]

\* the width of a (N, w) tensor with N >= 1
Width(x) == Len(x[1])


-----------------------------------------------------------------------------
(* HGTConv.__init__ *)

\* '__'.join(edge_type)
Join(et) == et[1] \o "__" \o et[2] \o "__" \o et[3]

\* the iteration that wrote dict entry key last, of a loop whose i-th
\* iteration writes entry keys[i]
LastWrite(keys, key) ==
    CHOOSE i \in DOMAIN keys :
        /\ keys[i] = key
        /\ \A j \in DOMAIN keys : j > i => keys[j] # key

\* One draw of a weight initializer: the entry (r, c) of the kind-th matrix
\* created in loop iteration i.  Small integers stand for the drawn reals.
WInit(kind, i, r, c) == ((3 * kind + i + r * c + r) % 13) % 2

\* Linear(in_features=inF, out_features=outF, act='relu6'), bias zero
NewLinear(kind, i, inF, outF) ==
    [in_features |-> inF, out_features |-> outF,
     W |-> [r \in 1..inF |-> [c \in 1..outF |-> WInit(kind, i, r, c)]],
     b |-> [c \in 1..outF |-> 0]]

\* self._get_weights(name, shape=(heads, dim, dim), init=TruncatedNormal())
NewRel(kind, i, H, D) ==
    [h \in 1..H |-> [r \in 1..D |-> [c \in 1..D |->
        ((kind + i + h + r + 2 * c) % 3) - 1]]]

\* lines 44-45: an int in_channels becomes a dict over metadata[0]
NormInChannels(arg, md) ==
    IF arg.isdict THEN arg.d ELSE DictOf(md[1], [i \in DOMAIN md[1] |-> arg.n])

\* lines 59-64: the keys the node-type loop iterates over
NodeLoopKeys(ic, md) == ic.keys

\* the relation loop skipping the first edge type
EdgeLoopTail(md) == Tail(md[2])

\* lines 72-73: the edge types the relation loop iterates over
EdgeLoopTypes(md) == md[2]

\* line 69
HeadDim(out, H) == out \div H

\* lines 59-64, one ModuleDict: kind 0 k_lin, 1 q_lin, 2 v_lin, 3 a_lin
NodeLinears(kind, ic, md, out) ==
    LET ks == NodeLoopKeys(ic, md)
    IN  [t \in Range(ks) |->
            LET i == LastWrite(ks, t)
            IN  NewLinear(kind, i, IF kind = 3 THEN out ELSE ic.val[t], out)]

\* line 64: Parameter(1.0)
SkipInit(t) == 1

\* line 78: Parameter(tlx.ones(shape=(heads,)))
PRelInit(H) == [h \in 1..H |-> 1]

\* lines 72-77: kind 0 a_rel (key suffix 'a'), 1 m_rel (key suffix 'm')
RelParams(kind, md, out, H) ==
    LET ets == EdgeLoopTypes(md)
        suffix == IF kind = 0 THEN "a" ELSE "m"
        keys == [i \in DOMAIN ets |-> Join(ets[i]) \o suffix]
    IN  [key \in Range(keys) |->
            NewRel(kind, LastWrite(keys, key), H, HeadDim(out, H))]

\* The state of the object after __init__(in_channels, out_channels, metadata,
\* heads, group).
Construct(arg) ==
    LET ic == NormInChannels(arg.in_channels, arg.metadata)
        md == arg.metadata
    IN  /\ in_channels = ic
        /\ out_channels = arg.out_channels
        /\ heads = arg.heads
        /\ group = arg.group
        /\ ctor = arg
        /\ k_lin = NodeLinears(0, ic, md, arg.out_channels)
        /\ q_lin = NodeLinears(1, ic, md, arg.out_channels)
        /\ v_lin = NodeLinears(2, ic, md, arg.out_channels)
        /\ a_lin = NodeLinears(3, ic, md, arg.out_channels)
        /\ skip = [t \in Range(NodeLoopKeys(ic, md)) |-> SkipInit(t)]
        /\ a_rel = RelParams(0, md, arg.out_channels, arg.heads)
        /\ m_rel = RelParams(1, md, arg.out_channels, arg.heads)
        /\ p_rel = [key \in {Join(e) : e \in Range(EdgeLoopTypes(md))} |->
                        PRelInit(arg.heads)]

\* no call is running
Idle ==
    /\ pc = "idle"
    /\ x_dict = EmptyDict /\ edge_index_dict = EmptyDict
    /\ k_dict = EmptyDict /\ q_dict = EmptyDict /\ v_dict = EmptyDict
    /\ out_dict = EmptyDict
    /\ pos = 0 /\ error = "none"
    /\ appended = <<>> /\ fed = <<>> /\ call = <<>>

-----------------------------------------------------------------------------
(* Tensor operations used by forward and message *)

\* tlx.ops.reshape(x, (-1, H, D)) of a (N, H * D) tensor
Reshape3(x, H, D) ==
    [n \in DOMAIN x |-> [h \in 1..H |-> [d \in 1..D |-> x[n][(h - 1) * D + d]]]]

\* tlx.ops.reshape(t, (-1, H * D)) of a (E, H, D) tensor
Flatten(t, H, D) ==
    [e \in DOMAIN t |->
        [c \in 1..(H * D) |-> t[e][((c - 1) \div D) + 1][((c - 1) % D) + 1]]]

\* transpose(transpose(t) @ rel): a linear map of head_dim per head
RelTransform(t, rel) ==
    [n \in DOMAIN t |-> [h \in DOMAIN rel |-> [c \in DOMAIN rel[h] |->
        SumSeq([r \in DOMAIN rel[h] |-> t[n][h][r] * rel[h][r][c]])]]]

\* tlx.gather(t, index, axis=0), indices counted from 0
Gather(t, index) == [e \in DOMAIN index |-> t[index[e] + 1]]


-----------------------------------------------------------------------------
(* The engine outside hgt_conv.py: segment reduction, segment softmax, the *)
(* Inspector, and the base class's aggregate and update                    *)

\* per-group sum: result[g] for g in 0..G-1, zero for a group with no member
SegmentSum(vals, gid, G) ==
    [g \in 1..G |->
        SumSeq([e \in DOMAIN gid |-> IF gid[e] = g - 1 THEN vals[e] ELSE 0])]

\* per-group max over the members of each group that has one
SegmentMax(vals, gid, G) ==
    [g \in 1..G |->
        LET mem == {e \in DOMAIN gid : gid[e] = g - 1}
        IN  IF mem = {} THEN 0
            ELSE CHOOSE m \in {vals[e] : e \in mem} : \A e \in mem : vals[e] <= m]

\* segment_softmax(scores, group_ids, group_count) of (E, H) scores
\* num / sqrt(rad): the result is (E, H) in units of 1/FxOne
SegmentSoftmax(scores, gid, G) ==
    LET E == DOMAIN gid
        H == IF scores.num = <<>> THEN {} ELSE DOMAIN scores.num[1]
        col(h) == [e \in E |-> scores.num[e][h]]
        mx(h) == SegmentMax(col(h), gid, G)
        ex(h) == [e \in E |-> ExpFx(scores.num[e][h] - mx(h)[gid[e] + 1],
                                    scores.rad)]
        sm(h) == SegmentSum(ex(h), gid, G)
    IN  [e \in E |-> [h \in H |->
            (ex(h)[e] * FxOne) \div sm(h)[gid[e] + 1]]]

\* Inspector.distribute('message', coll_dict): the declared parameters that
\* coll_dict does not supply
Undistributed(params, coll) == params \ DOMAIN coll

\* MessagePassing.aggregate(msg, edge_index, num_nodes, aggr='sum') of a
\* (E, width) tensor: segment sum by target index
BaseAggregate(msg, edge_index, num_nodes, width) ==
    [n \in 1..num_nodes |-> [c \in 1..width |->
        SegmentSum([e \in DOMAIN msg |-> msg[e][c]], edge_index.tgt, num_nodes)[n]]]

\* MessagePassing.update(x)
BaseUpdate(x) == x

-----------------------------------------------------------------------------
(* HGTConv.message, aggregate, update and propagate *)

\* message declared without num_nodes
MessageParamsShort == {"k_j", "q_i", "v_j", "rel", "target_index"}

\* line 139: the parameters message declares
MessageParams == {"k_j", "q_i", "v_j", "rel", "target_index", "num_nodes"}

\* line 140: reduce_sum(k_j * q_i, axis=-1)
DotProduct(k_j, q_i) ==
    [e \in DOMAIN k_j |-> [h \in DOMAIN k_j[e] |->
        SumSeq([d \in DOMAIN k_j[e][h] |-> k_j[e][h][d] * q_i[e][h][d]])]]

\* the relation prior left out of the score
TimesRelDropped(alpha, rel) == alpha

\* line 141: alpha * rel, rel of shape (heads,)
TimesRel(alpha, rel) ==
    [e \in DOMAIN alpha |-> [h \in DOMAIN alpha[e] |-> alpha[e][h] * rel[h]]]

\* line 142: alpha / math.sqrt(q_i.shape[-1]), kept as num / sqrt(rad)
DivSqrt(alpha, q_i) ==
    [num |-> alpha,
     rad |-> IF q_i = <<>> THEN HeadDim(out_channels, heads)
             ELSE Len(q_i[1][1])]

\* line 143: the group ids and the group count handed to segment_softmax
SoftmaxGroups(target_index, num_nodes) ==
    [index |-> target_index, count |-> num_nodes]

\* line 143: Dropout(dropout_rate) with the default rate 0
Dropout(alpha) == alpha

\* lines 139-145
Message(k_j, q_i, v_j, rel, target_index, num_nodes) ==
    LET score == DivSqrt(TimesRel(DotProduct(k_j, q_i), rel), q_i)
        sg    == SoftmaxGroups(target_index, num_nodes)
        alpha == Dropout(SegmentSoftmax(score, sg.index, sg.count))
        out   == [e \in DOMAIN v_j |-> [h \in DOMAIN v_j[e] |->
                    [d \in DOMAIN v_j[e][h] |-> v_j[e][h][d] * alpha[e][h]]]]
    IN  [score |-> score, groups |-> sg, alpha |-> alpha,
         out |-> Flatten(out, heads, HeadDim(out_channels, heads))]

\* lines 147-148
Aggregate(msg, edge_index, num_nodes) ==
    BaseAggregate(msg, edge_index, num_nodes, out_channels)

\* lines 150-151
Update(x) == BaseUpdate(x)

\* lines 126-137.  kwargs is a function from the supplied names to values.
Propagate(edge_index, aggr, kwargs) ==
    LET coll == [n \in DOMAIN kwargs \cup {"edge_index", "aggr", "target_index"} |->
                    CASE n = "edge_index" -> edge_index
                      [] n = "aggr" -> aggr
                      [] n = "target_index" -> edge_index.tgt
                      [] OTHER -> kwargs[n]]
        none == [args |-> DOMAIN kwargs, edge_index |-> edge_index,
                 error |-> "none", stages |-> <<>>, msg |-> <<>>, out |-> <<>>]
    IN  IF Undistributed(MessageParams, coll) # {}
        THEN [none EXCEPT !.error = "TypeError"]
        ELSE IF /\ "num_nodes" \in DOMAIN kwargs
                /\ \E e \in DOMAIN edge_index.tgt :
                      edge_index.tgt[e] \notin 0..(kwargs.num_nodes - 1)
        THEN [none EXCEPT !.error = "IndexError", !.stages = <<"message">>]
        ELSE LET m == Message(coll.k_j, coll.q_i, coll.v_j, coll.rel,
                              coll.target_index, coll.num_nodes)
             IN  IF "num_nodes" \notin DOMAIN kwargs
                 THEN [none EXCEPT !.error = "KeyError", !.stages = <<"message">>]
                 ELSE [args |-> DOMAIN kwargs, edge_index |-> edge_index,
                       error |-> "none",
                       stages |-> <<"message", "aggregate", "update">>,
                       msg |-> m,
                       out |-> Update(Aggregate(m.out, edge_index,
                                                kwargs.num_nodes))]


-----------------------------------------------------------------------------
(* HGTConv.forward *)

\* line 82
H == heads
D == HeadDim(out_channels, heads)

\* line 95: src_type, _, dst_type = edge_type
SrcType(et) == et[1]
DstType(et) == et[3]

\* lines 98, 101, 110: the parameter keys of an edge type
ARelKey(et) == Join(et) \o "a"
MRelKey(et) == Join(et) \o "m"
PRelKey(et) == Join(et)

\* line 107: the node type whose queries are gathered by target index
QueryType(et) == DstType(et)

\* lines 99, 102: the node type whose keys and values are transformed
KeyValueType(et) == SrcType(et)

\* the node count of the source type handed to propagate
NumNodesSource(et) == Len(x_dict.val[SrcType(et)])

\* line 112: num_nodes=x_dict[dst_type].shape[0]
NumNodesArg(et) == Len(x_dict.val[DstType(et)])

\* the result appended to the source type's list
AppendTypeSource(et) == SrcType(et)

\* line 113: the list the result of propagate is appended to
AppendType(et) == DstType(et)

\* lines 117-118: tlx.stack(outs), then reduce_sum over axis 0
StackSum(outs) ==
    [n \in DOMAIN outs[1] |-> [c \in DOMAIN outs[1][n] |->
        SumSeq([i \in DOMAIN outs |-> outs[i][n][c]])]]

\* one node type's scalar used as the gate of every type
GateShared(t) == SigmoidFx(skip[CHOOSE u \in DOMAIN skip : TRUE])

\* line 120: the gate of a node type, in units of 1/FxOne
Gate(t) == SigmoidFx(skip[t])

\* line 121: whether (N, wo) and (N, wx) broadcast together
Broadcasts(wo, wx) == wo = wx \/ wo = 1 \/ wx = 1

\* line 121: alpha * out + (1 - alpha) * x, in units of 1/(FxOne * FxOne);
\* out is in units of 1/FxOne and x is a tensor of integers
Blend(alpha, out, x) ==
    LET wo == Width(out)
        wx == Width(x)
        w  == Max2(wo, wx)
    IN  [n \in DOMAIN out |-> [c \in 1..w |->
            alpha * out[n][IF wo = 1 THEN 1 ELSE c]
            + (FxOne - alpha) * (x[n][IF wx = 1 THEN 1 ELSE c] * FxOne)]]

\* where a loop stands after an iteration: the next iteration of the same
\* loop, or the first of the next loop that has one, or the return
LoopAt(phase, p, nx, ne) ==
    IF phase = "project" /\ p <= nx THEN <<"project", p>>
    ELSE IF phase = "project" /\ 1 <= ne THEN <<"edges", 1>>
    ELSE IF phase = "edges" /\ p <= ne THEN <<"edges", p>>
    ELSE IF phase # "update" /\ 1 <= nx THEN <<"update", 1>>
    ELSE IF phase = "update" /\ p <= nx THEN <<"update", p>>
    ELSE <<"done", 0>>

GotoIn(phase, p, xd, eid) ==
    LET at == LoopAt(phase, p, Len(xd.keys), Len(eid.keys))
    IN  pc' = at[1] /\ pos' = at[2]

Goto(phase, p) == GotoIn(phase, p, x_dict, edge_index_dict)

Raise(e) ==
    /\ pc' = "error" /\ error' = e
    /\ UNCHANGED <<k_dict, q_dict, v_dict, out_dict, pos, appended, call>>

\* the call forward(x_dict, edge_index_dict) starts
ForwardBegin(xd, eid) ==
    /\ pc = "idle"
    /\ x_dict' = xd /\ edge_index_dict' = eid
    /\ GotoIn("project", 1, xd, eid)
    /\ UNCHANGED <<k_dict, q_dict, v_dict, out_dict, error, appended, fed, call>>
    /\ UNCHANGED objvars

\* lines 86-90, one iteration
ProjectStep ==
    /\ pc = "project"
    /\ LET t == x_dict.keys[pos]
           x == x_dict.val[t]
       IN  IF t \notin DOMAIN k_lin THEN Raise("KeyError") /\ UNCHANGED fed
           ELSE IF Width(x) # k_lin[t].in_features
           THEN Raise("ShapeMismatch") /\ UNCHANGED fed
           ELSE /\ k_dict' = Put(k_dict, t, Reshape3(LinearApply(k_lin[t], x, 1), H, D))
                /\ q_dict' = Put(q_dict, t, Reshape3(LinearApply(q_lin[t], x, 1), H, D))
                /\ v_dict' = Put(v_dict, t, Reshape3(LinearApply(v_lin[t], x, 1), H, D))
                /\ out_dict' = Put(out_dict, t, <<>>)
                /\ Goto("project", pos + 1)
                /\ UNCHANGED <<error, appended, fed, call>>
    /\ UNCHANGED <<x_dict, edge_index_dict>>
    /\ UNCHANGED objvars

\* an edge index of at most L edges from ns source to nd target nodes
EdgeIndexes(ns, nd, L) ==
    { [src |-> [e \in DOMAIN s |-> s[e][1]], tgt |-> [e \in DOMAIN s |-> s[e][2]]] :
        s \in UNION { [1..l -> (0..(ns - 1)) \X (0..(nd - 1))] : l \in 0..L } }

\* the edges of the edge indexes read so far
EdgesRead ==
    SumSeq([i \in DOMAIN edge_index_dict.keys |->
              LET et == edge_index_dict.keys[i]
              IN  IF et \in DOMAIN edge_index_dict.val
                  THEN Len(edge_index_dict.val[et].src) ELSE 0])

\* lines 93-113, one iteration.  forward reads the edge index of an edge
\* type in that type's iteration only, and the model draws it there: any
\* edge index whose entries address rows of the source and of the
\* destination type's tensors.
EdgeStep ==
    /\ pc = "edges"
    /\ LET et == edge_index_dict.keys[pos]
       IN  IF \/ ARelKey(et) \notin DOMAIN a_rel
              \/ ~Has(k_dict, KeyValueType(et))
              \/ MRelKey(et) \notin DOMAIN m_rel
              \/ ~Has(q_dict, QueryType(et))
              \/ PRelKey(et) \notin DOMAIN p_rel
              \/ ~Has(x_dict, SrcType(et))
              \/ ~Has(x_dict, DstType(et))
              \/ ~Has(out_dict, AppendType(et))
           THEN Raise("KeyError") /\ UNCHANGED <<fed, edge_index_dict>>
           ELSE \E ei \in EdgeIndexes(Len(x_dict.val[SrcType(et)]),
                                      Len(x_dict.val[DstType(et)]),
                                      MaxEdges - EdgesRead) :
                LET k == RelTransform(k_dict.val[KeyValueType(et)], a_rel[ARelKey(et)])
                    v == RelTransform(v_dict.val[KeyValueType(et)], m_rel[MRelKey(et)])
                    kw == [q_i |-> Gather(q_dict.val[QueryType(et)], ei.tgt),
                           v_j |-> Gather(v, ei.src),
                           k_j |-> Gather(k, ei.src),
                           rel |-> p_rel[PRelKey(et)],
                           num_nodes |-> NumNodesArg(et)]
                    r == Propagate(ei, "sum", kw)
                    to == AppendType(et)
                IN  /\ edge_index_dict' =
                          [edge_index_dict EXCEPT !.val =
                              [x \in DOMAIN edge_index_dict.val \cup {et} |->
                                  IF x = et THEN ei ELSE edge_index_dict.val[x]]]
                    /\ call' = [edge_type |-> et, r |-> r]
                    /\ UNCHANGED <<k_dict, q_dict, v_dict, fed>>
                    /\ IF r.error # "none"
                       THEN /\ pc' = "error" /\ error' = r.error
                            /\ UNCHANGED <<out_dict, pos, appended>>
                       ELSE /\ out_dict' = Put(out_dict, to,
                                               Append(out_dict.val[to], r.out))
                            /\ appended' =
                                  [t \in DOMAIN appended \cup {to} |->
                                      IF t = to
                                      THEN (IF t \in DOMAIN appended
                                            THEN appended[t] ELSE <<>>)
                                           \o <<[edge_type |-> et, out |-> r.out]>>
                                      ELSE appended[t]]
                            /\ Goto("edges", pos + 1)
                            /\ UNCHANGED error
    /\ UNCHANGED x_dict
    /\ UNCHANGED objvars

\* lines 116-122, one iteration; after the last one, line 124 returns out_dict
UpdateStep ==
    /\ pc = "update"
    /\ LET t == out_dict.keys[pos]
           outs == out_dict.val[t]
           x == x_dict.val[t]
       IN  IF outs = <<>> THEN Raise("StackError") /\ UNCHANGED fed
           ELSE LET out == StackSum(outs)
                    proj == LinearApply(a_lin[t], out, FxOne)
                IN  /\ fed' = [u \in DOMAIN fed \cup {t} |->
                                 IF u = t THEN out ELSE fed[u]]
                    /\ IF ~Broadcasts(Width(proj), Width(x))
                       THEN Raise("ShapeMismatch")
                       ELSE /\ out_dict' = Put(out_dict, t, Blend(Gate(t), proj, x))
                            /\ Goto("update", pos + 1)
                            /\ UNCHANGED <<k_dict, q_dict, v_dict, error,
                                           appended, call>>
    /\ UNCHANGED <<x_dict, edge_index_dict>>
    /\ UNCHANGED objvars

\* the call is over: its locals are gone, the object stays
Finish ==
    /\ pc \in {"done", "error"}
    /\ pc' = "idle"
    /\ x_dict' = EmptyDict /\ edge_index_dict' = EmptyDict
    /\ k_dict' = EmptyDict /\ q_dict' = EmptyDict /\ v_dict' = EmptyDict
    /\ out_dict' = EmptyDict
    /\ pos' = 0 /\ error' = "none"
    /\ appended' = <<>> /\ fed' = <<>> /\ call' = <<>>
    /\ UNCHANGED objvars


-----------------------------------------------------------------------------
(* Callers: what is constructed, what forward and propagate are called on, *)
(* and the optimizer that assigns the learnable parameters                 *)

\* the feature tensor of the i-th node type of an x_dict: N rows of width w
Features(i, N, w) == [n \in 1..N |-> [c \in 1..w |-> (i + n * c) % 2]]

\* the width the features of node type t are given: the width its Linear
\* layers expect
FeatureWidth(t) == IF t \in DOMAIN k_lin THEN k_lin[t].in_features ELSE 1

\* every x_dict over the key order ts with at least one node per type and
\* at most M nodes in all
XDicts(ts, M) ==
    { [keys |-> ts,
       val |-> [t \in Range(ts) |->
                  Features(CHOOSE i \in DOMAIN ts : ts[i] = t, cnt[t],
                           FeatureWidth(t))]] :
        cnt \in { c \in [Range(ts) -> 1..M] :
                    SumSeq([i \in DOMAIN ts |-> c[ts[i]]]) <= M } }

\* an edge_index_dict over the key order ets, no entry read yet
EdgeIndexDict(ets) == [keys |-> ets, val |-> <<>>]

\* the sub-sequences of a sequence of distinct entries, in its order
SubSeqs(s) ==
    { SelectSeq(s, LAMBDA x : x \in keep) : keep \in SUBSET Range(s) }


\* arguments of a direct call of propagate: one edge 0 -> 0 and, of the
\* keyword arguments below, those named in names
DirectEdgeIndex == [src |-> <<0>>, tgt |-> <<0>>]
DirectKwargs(names) ==
    LET ones == <<[h \in 1..H |-> [d \in 1..D |-> 1]]>>
        all == [k_j |-> ones, q_i |-> ones, v_j |-> ones,
                rel |-> [h \in 1..H |-> 1], num_nodes |-> 1]
    IN  [n \in names |-> all[n]]

\* a caller invokes propagate(edge_index, **kwargs) directly
PropagateCall(names) ==
    /\ pc = "idle"
    /\ LET r == Propagate(DirectEdgeIndex, "sum", DirectKwargs(names))
       IN  /\ call' = [edge_type |-> <<>>, r |-> r]
           /\ error' = r.error
           /\ pc' = IF r.error = "none" THEN "done" ELSE "error"
    /\ UNCHANGED <<x_dict, edge_index_dict, k_dict, q_dict, v_dict, out_dict,
                   pos, appended, fed>>
    /\ UNCHANGED objvars

\* the optimizer assigns new values to the learnable scalars skip and p_rel;
\* which keys exist and the shape of each value stay as constructed
TrainStep ==
    /\ pc = "idle"
    /\ \A t \in DOMAIN skip : skip[t] = SkipInit(t)
    /\ skip' = [t \in DOMAIN skip |->
                  1 - LastWrite(in_channels.keys, t)]
    /\ p_rel' = [key \in DOMAIN p_rel |->
                   [h \in DOMAIN p_rel[key] |->
                      1 + ((h + LastWrite([i \in DOMAIN ctor.metadata[2] |->
                                              PRelKey(ctor.metadata[2][i])],
                                          key)) % 3)]]
    /\ UNCHANGED <<in_channels, out_channels, heads, group, k_lin, q_lin, v_lin,
                   a_lin, a_rel, m_rel, ctor>>
    /\ UNCHANGED callvars

-----------------------------------------------------------------------------
(* The layer of a two-type graph, called on well-typed inputs *)

PaperAuthor ==
    << <<"a", "b">>,
       << <<"a", "r", "b">>, <<"b", "s", "b">>, <<"b", "r", "a">> >> >>

IntChannels(n) == [isdict |-> FALSE, n |-> n, d |-> EmptyDict]
DictChannels(d) == [isdict |-> TRUE, n |-> 0, d |-> d]

CtorArgs ==
    { [in_channels |-> IntChannels(4), out_channels |-> 4, metadata |-> PaperAuthor,
       heads |-> 2, group |-> "sum"] }

Init == \E arg \in CtorArgs : Construct(arg) /\ Idle

Forward ==
    /\ pc = "idle"
    /\ \E xd \in XDicts(ctor.metadata[1], MaxNodes) :
         \E ets \in SubSeqs(ctor.metadata[2]) :
             ForwardBegin(xd, EdgeIndexDict(ets))

\* the keyword arguments a direct caller may pass
DirectNames == {"k_j", "q_i", "v_j", "rel", "num_nodes"}

DirectPropagate == \E names \in SUBSET DirectNames : PropagateCall(names)

Next ==
    \/ Forward
    \/ ProjectStep
    \/ EdgeStep
    \/ UpdateStep
    \/ Finish
    \/ DirectPropagate
    \/ TrainStep

Spec == Init /\ [][Next]_vars

-----------------------------------------------------------------------------
(* Any layer the constructor accepts, called on any typed input: input     *)
(* widths that differ from out_channels, a per-type in_channels dict whose  *)
(* keys are or are not the node types of the metadata, type labels that     *)
(* contain the separator of the joined key, every aggregation label, and    *)
(* calls that omit types of the metadata or bring types it does not have    *)

Colliding ==
    << <<"a", "b", "a__b">>,
       << <<"a", "b__r", "b">>, <<"a__b", "r", "b">>, <<"b", "r", "a__b">> >> >>

\* a node type and edge types no metadata above has
StrangerNode == "u"
StrangerEdges == { <<"a", "t", "b">>, <<"b", "r__a", "b">> }

Groups == {"sum", "mean", "min", "max"}

Layer(ic, out, md, hd, g) ==
    [in_channels |-> ic, out_channels |-> out, metadata |-> md, heads |-> hd,
     group |-> g]

CtorArgsWide ==
    { Layer(IntChannels(2), 2, PaperAuthor, 1, g) : g \in Groups }
    \cup
    { Layer(IntChannels(2), 1, PaperAuthor, 1, "sum"),
      Layer(IntChannels(1), 2, PaperAuthor, 2, "sum"),
      Layer(DictChannels(DictOf(<<"a", "b">>, <<2, 3>>)),
            2, PaperAuthor, 2, "sum"),
      Layer(DictChannels(DictOf(<<"b">>, <<2>>)), 2, PaperAuthor, 1, "sum"),
      Layer(DictChannels(DictOf(<<"a", "b", "u">>, <<2, 2, 2>>)),
            2, PaperAuthor, 1, "sum"),
      Layer(IntChannels(2), 2, Colliding, 1, "sum") }

InitWide == \E arg \in CtorArgsWide : Construct(arg) /\ Idle

\* the key orders of the x_dicts, which hold one node less than MaxNodes in
\* all: some or all node types of the metadata, or all of them and the
\* stranger
XKeySeqs(md) ==
    (SubSeqs(md[1]) \ {<<>>}) \cup {Append(md[1], StrangerNode)}

\* the key orders of the edge_index_dicts: some or all edge types of the
\* metadata, or a stranger alone or after all of them
ETypeSeqs(md) ==
    SubSeqs(md[2]) \cup { Append(q, e) : q \in {<<>>, md[2]}, e \in StrangerEdges }

ForwardWide ==
    /\ pc = "idle"
    /\ \E ts \in XKeySeqs(ctor.metadata) :
         \E xd \in XDicts(ts, MaxNodes - 1) :
           \E ets \in ETypeSeqs(ctor.metadata) :
               ForwardBegin(xd, EdgeIndexDict(ets))

NextWide ==
    \/ ForwardWide
    \/ ProjectStep
    \/ EdgeStep
    \/ UpdateStep
    \/ Finish
    \/ DirectPropagate

SpecWide == InitWide /\ [][NextWide]_vars


-----------------------------------------------------------------------------
(* Properties *)

\* a call of forward is running or has ended
InForward == x_dict # EmptyDict

\* the edge types whose iteration of the relation loop is over
Processed ==
    IF pc = "edges" THEN {edge_index_dict.keys[i] : i \in 1..(pos - 1)}
    ELSE IF pc \in {"update", "done"} THEN Range(edge_index_dict.keys)
    ELSE {}

KeyIndex(d, k) == CHOOSE i \in DOMAIN d.keys : d.keys[i] = k

\* the update loop has replaced the accumulator of node type t by its result
Updated(t) ==
    pc = "done" \/ (pc = "update" /\ KeyIndex(out_dict, t) < pos)

AppendedTo(t) == IF t \in DOMAIN appended THEN appended[t] ELSE <<>>

\* the accumulator entries of t are one per edge type of ets with destination
\* t, and nothing else
OnePerRelationInto(t, ets) ==
    /\ \A et \in ets :
          et[3] = t =>
            Cardinality({j \in DOMAIN AppendedTo(t) :
                            AppendedTo(t)[j].edge_type = et}) = 1
    /\ \A j \in DOMAIN AppendedTo(t) :
          AppendedTo(t)[j].edge_type \in ets /\ AppendedTo(t)[j].edge_type[3] = t

\* C1: in forward, the accumulator of every node type T of x_dict holds exactly
\* one contribution from each processed edge type whose destination type is T
\* and none from another edge type; when the update stage reads it, every
\* edge type of edge_index_dict has been processed, and the tensor handed to
\* the output projection is the sum of those contributions.
C1_OneContributionPerRelation ==
    /\ pc \in {"edges", "update", "done"} =>
          \A t \in Range(x_dict.keys) :
              /\ OnePerRelationInto(t, Processed)
              /\ ~Updated(t) =>
                    out_dict.val[t] =
                        [j \in DOMAIN AppendedTo(t) |-> AppendedTo(t)[j].out]
    /\ \A t \in DOMAIN fed :
          /\ OnePerRelationInto(t, Range(edge_index_dict.keys))
          /\ fed[t] =
                [n \in 1..Len(x_dict.val[t]) |-> [c \in 1..out_channels |->
                    SumSeq([j \in DOMAIN AppendedTo(t) |->
                               AppendedTo(t)[j].out[n][c]])]]

NonZero(x) == \E n \in DOMAIN x : \E c \in DOMAIN x[n] : x[n][c] # 0

\* forward has returned; one node type was fed the sum of two relations'
\* non-zero results, while a third relation went to the other type
C1_Witness ==
    /\ InForward /\ pc = "done"
    /\ Len(AppendedTo("b")) = 2 /\ Len(AppendedTo("a")) = 1
    /\ NonZero(AppendedTo("b")[1].out) /\ NonZero(AppendedTo("b")[2].out)
    /\ fed["b"] # AppendedTo("b")[1].out /\ fed["b"] # AppendedTo("b")[2].out

\* C3: the result of forward for node type T is
\* gate_T * a_lin_T(aggregated_T) + (1 - gate_T) * x_dict[T], with
\* gate_T = sigmoid(skip[T]) of T's own scalar (fixed point: both sides are in
\* units of 1 / FxOne^2, and the two weights add up to FxOne).
C3_GateBlend ==
    \A t \in Range(x_dict.keys) :
        Updated(t) =>
            LET g == SigmoidFx(skip[t])
                proj == LinearApply(a_lin[t], fed[t], FxOne)
                x == x_dict.val[t]
            IN  out_dict.val[t] =
                    [n \in 1..Len(x) |-> [c \in 1..out_channels |->
                        g * proj[n][c] + (FxOne - g) * (x[n][c] * FxOne)]]

\* forward has returned after the optimizer gave the node types different
\* gates, and a projected aggregate and an input feature are both non-zero
C3_Witness ==
    /\ InForward /\ pc = "done"
    /\ skip["a"] # skip["b"]
    /\ NonZero(LinearApply(a_lin["b"], fed["b"], FxOne))
    /\ NonZero(x_dict.val["b"])

\* C9: for every edge type (src, rel, dst) forward processes, propagate
\* returns a tensor of exactly node_count(dst) rows, the row count of
\* x_dict[dst], of width out_channels, in which every destination node that
\* no edge of that type targets has an all-zero row.
C9_RowPerDestinationNode ==
    (InForward /\ call # <<>>) =>
        LET out == call.r.out
            tgt == call.r.edge_index.tgt
        IN  /\ call.r.error = "none"
            /\ Len(out) = Len(x_dict.val[call.edge_type[3]])
            /\ \A n \in DOMAIN out :
                  /\ Len(out[n]) = out_channels
                  /\ (n - 1) \notin Range(tgt) =>
                        \A c \in DOMAIN out[n] : out[n][c] = 0

\* propagate returned for an edge type with more destination than source
\* nodes, whose last destination node has no incoming edge while another has
\* a non-zero aggregate
C9_Witness ==
    /\ InForward /\ call # <<>>
    /\ Len(x_dict.val[call.edge_type[3]]) > Len(x_dict.val[call.edge_type[1]])
    /\ Len(call.r.out) = Len(x_dict.val[call.edge_type[3]])
    /\ (Len(call.r.out) - 1) \notin Range(call.r.edge_index.tgt)
    /\ NonZero(call.r.out)

\* C10: for every edge k of edge type (src, rel, dst) and every head h, the
\* pre-softmax score is dot(K_rel[source_index[k], h], Q[target_index[k], h])
\* / sqrt(head_dim) * p_rel[rel][h], with Q the dst type's query projection
\* and K_rel (V_rel) the src type's key (value) projection transformed per
\* head by the edge type's a_rel (m_rel); the scores are normalised by
\* segment softmax over target_index with as many groups as dst has nodes,
\* and the message is V_rel at the source times the normalised weight.
C10_AttentionScore ==
    (InForward /\ call # <<>> /\ call.r.error = "none") =>
        LET et == call.edge_type
            ei == call.r.edge_index
            m == call.r.msg
            dim == out_channels \div heads
            Q == Reshape3(LinearApply(q_lin[et[3]], x_dict.val[et[3]], 1), heads, dim)
            K == Reshape3(LinearApply(k_lin[et[1]], x_dict.val[et[1]], 1), heads, dim)
            V == Reshape3(LinearApply(v_lin[et[1]], x_dict.val[et[1]], 1), heads, dim)
            Krel(n, h, c) ==
                SumSeq([r \in 1..dim |-> K[n][h][r] * a_rel[Join(et) \o "a"][h][r][c]])
            Vrel(n, h, c) ==
                SumSeq([r \in 1..dim |-> V[n][h][r] * m_rel[Join(et) \o "m"][h][r][c]])
        IN  /\ m.score.rad = dim
            /\ DOMAIN m.score.num = DOMAIN ei.src
            /\ \A e \in DOMAIN ei.src : \A h \in 1..heads :
                  m.score.num[e][h] =
                      SumSeq([c \in 1..dim |->
                                Krel(ei.src[e] + 1, h, c) * Q[ei.tgt[e] + 1][h][c]])
                      * p_rel[Join(et)][h]
            /\ m.groups = [index |-> ei.tgt, count |-> Len(x_dict.val[et[3]])]
            /\ m.alpha = SegmentSoftmax(m.score, ei.tgt, Len(x_dict.val[et[3]]))
            /\ \A e \in DOMAIN ei.src : \A h \in 1..heads : \A c \in 1..dim :
                  m.out[e][(h - 1) * dim + c] =
                      Vrel(ei.src[e] + 1, h, c) * m.alpha[e][h]

\* message ran for an edge type of different source and destination type
\* whose two edges share their target, with different scores, a relation
\* prior that differs between the heads, and a non-zero message
C10_Witness ==
    /\ InForward /\ call # <<>> /\ call.r.error = "none"
    /\ call.edge_type[1] # call.edge_type[3]
    /\ Len(call.r.edge_index.tgt) = 2
    /\ call.r.edge_index.tgt[1] = call.r.edge_index.tgt[2]
    /\ call.r.edge_index.src[1] # call.r.edge_index.src[2]
    /\ call.r.msg.score.num[1] # call.r.msg.score.num[2]
    /\ call.r.msg.score.num[1][1] # 0 /\ call.r.msg.score.num[1][2] # 0
    /\ p_rel[Join(call.edge_type)][1] # p_rel[Join(call.edge_type)][2]
    /\ NonZero(call.r.msg.out)

\* C7: propagate fails, before any stage has run, whenever one of the names
\* message declares (k_j, q_i, v_j, rel, target_index, num_nodes) has no value
\* among the keyword arguments and the engine's edge_index, aggr and
\* target_index; when every name has a value, the stages run once each, in
\* the order message, aggregate, update.
C7_MissingArgumentFails ==
    call # <<>> =>
        LET supplied == call.r.args \cup {"edge_index", "aggr", "target_index"}
            declared == {"k_j", "q_i", "v_j", "rel", "target_index", "num_nodes"}
        IN  IF declared \ supplied # {}
            THEN /\ call.r.error # "none"
                 /\ call.r.stages = <<>>
                 /\ call.r.msg = <<>> /\ call.r.out = <<>>
            ELSE /\ call.r.error = "none"
                 /\ call.r.stages = <<"message", "aggregate", "update">>

\* a direct call that supplied every keyword argument but num_nodes failed
C7_Witness ==
    /\ ~InForward /\ call # <<>>
    /\ call.r.args = {"k_j", "q_i", "v_j", "rel"}
    /\ pc = "error" /\ error = "TypeError"


\* node n (from 1) of type t is the target of an edge of some edge type of
\* edge_index_dict
HasIncoming(t, n) ==
    \E et \in Range(edge_index_dict.keys) \cap DOMAIN edge_index_dict.val :
        et[3] = t /\ (n - 1) \in Range(edge_index_dict.val[et].tgt)

\* every node and edge type of the call is one of the metadata
TypesKnown ==
    /\ Range(x_dict.keys) \subseteq Range(ctor.metadata[1])
    /\ Range(edge_index_dict.keys) \subseteq Range(ctor.metadata[2])

\* C2: a forward call on node and edge types of the metadata and indices in
\* range does not fail, whatever nodes have no incoming edge - a node no edge
\* targets, an edge type with an empty edge list, a node type that is the
\* destination of no edge type of edge_index_dict - and at its end such a
\* node's aggregated vector is zero and its output row is
\* gate * a_lin(zero vector) + (1 - gate) * its input feature.
C2_ZeroInDegreeIsValid ==
    (InForward /\ TypesKnown) =>
        /\ pc # "error"
        /\ pc = "done" =>
              \A t \in Range(x_dict.keys) : \A n \in 1..Len(x_dict.val[t]) :
                  ~HasIncoming(t, n) =>
                      LET zero == [c \in 1..out_channels |-> 0]
                          g == SigmoidFx(skip[t])
                          proj == LinearApply(a_lin[t], <<zero>>, FxOne)[1]
                      IN  /\ fed[t][n] = zero
                          /\ out_dict.val[t][n] =
                                [c \in 1..out_channels |->
                                    g * proj[c]
                                    + (FxOne - g) * (x_dict.val[t][n][c] * FxOne)]

\* C4: forward returns one entry per node type of x_dict, each of shape
\* (node count of the type, out_channels), whatever the input width of the
\* type; the residual blend of the (N, out_channels) projection with the
\* (N, in_channels[T]) input feature does not fail.
C4_OutputShape ==
    InForward =>
        /\ error # "ShapeMismatch"
        /\ pc = "done" =>
              /\ Range(out_dict.keys) = Range(x_dict.keys)
              /\ \A t \in Range(x_dict.keys) :
                    /\ Len(out_dict.val[t]) = Len(x_dict.val[t])
                    /\ \A n \in DOMAIN out_dict.val[t] :
                          Len(out_dict.val[t][n]) = out_channels

IsMatrix(W, rows, cols) ==
    DOMAIN W = 1..rows /\ \A r \in 1..rows : DOMAIN W[r] = 1..cols

IsLinear(lin, inF, outF) ==
    /\ lin.in_features = inF /\ lin.out_features = outF
    /\ IsMatrix(lin.W, inF, outF) /\ DOMAIN lin.b = 1..outF

RegularLayer ==
    /\ DOMAIN k_lin = Range(ctor.metadata[1])
    /\ \A t \in DOMAIN k_lin : k_lin[t].in_features = out_channels

\* C6: on a layer with parameters for exactly the node types of its metadata
\* and input widths equal to out_channels, forward fails whenever x_dict
\* holds a node type or edge_index_dict an edge type that the metadata does
\* not have; and a call that omits node or edge types of the metadata does
\* not fail as long as every supplied type is of the metadata and the source
\* and destination type of every supplied edge type is in x_dict.
C6_UnknownTypeIsFatal ==
    (InForward /\ RegularLayer) =>
        LET closed == \A e \in Range(edge_index_dict.keys) :
                          e[1] \in Range(x_dict.keys) /\ e[3] \in Range(x_dict.keys)
            omits == \/ Range(x_dict.keys) # Range(ctor.metadata[1])
                     \/ Range(edge_index_dict.keys) # Range(ctor.metadata[2])
        IN  /\ ~TypesKnown => pc # "done"
            /\ (TypesKnown /\ omits /\ closed) => pc # "error"

MinOf(col) == CHOOSE m \in Range(col) : \A x \in Range(col) : m <= x
MaxOf(col) == CHOOSE m \in Range(col) : \A x \in Range(col) : m >= x

\* C8: the tensor forward hands to the output projection of a node type is
\* the reduction, by the scheme the constructor argument group names, of the
\* results of the edge types into that type: their sum for 'sum', their mean
\* for 'mean', their elementwise minimum or maximum for 'min' or 'max'.
C8_GroupSelectsReduction ==
    InForward =>
        \A t \in DOMAIN fed :
          \A n \in DOMAIN fed[t] : \A c \in DOMAIN fed[t][n] :
            LET col == [j \in DOMAIN AppendedTo(t) |-> AppendedTo(t)[j].out[n][c]]
            IN  CASE group = "sum" -> fed[t][n][c] = SumSeq(col)
                  [] group = "mean" -> fed[t][n][c] * Len(col) = SumSeq(col)
                  [] group = "min" -> fed[t][n][c] = MinOf(col)
                  [] group = "max" -> fed[t][n][c] = MaxOf(col)

====
